---- MODULE Spec2Model ----
(***************************************************************************)
(* Model of the wrench engine's entity-component core:                     *)
(*   wecs/src/world.rs                 World (create, create_default,      *)
(*                                     remove, remove_by_id)               *)
(*   src/engine.rs                     Engine::run (the render loop that   *)
(*                                     scans the World's entity list)      *)
(*   src/components/event_handler.rs   EventHandler (new, handle)          *)
(*                                                                         *)
(* Spec    : worker threads calling the World while Engine::run renders.   *)
(* SpecEH  : EventHandler::new followed by concurrent EventHandler::handle.*)
(***************************************************************************)
EXTENDS Integers, Sequences, FiniteSets, TLC

\* ------------------------------------------------------------------ bounds
MaxEntities == 3      \* entities allocated by create / create_default
MaxDefaults == 1      \* of which by create_default
MaxOps == 4           \* list mutations (create, remove, remove_by_id) recorded
NumDeliveries == 3    \* threads that each call EventHandler::handle once
MaxRecreations == 2   \* successful swapchain recreations in Engine::run

Workers == {"w1", "w2"}
Render == "render"
NoThread == "none"
Ids == {"a", "b"}
ComponentMaps == {{}, {"mesh"}}
Deliverers == 1..NumDeliveries
Handlers == {"h1", "h2"}

VARIABLES
    entities,            \* World.entities: the Vec behind the Mutex
    entitiesLock,        \* holder of World.entities' Mutex, or NoThread
    poisoned,            \* the Mutex was held by a thread that panicked
    strong,              \* strong count of the Arc<World>
    nextUid,             \* next Arc<Entity> allocation
    defaults,            \* create_default's calls: argument and returned entity
    pc, op, snap,        \* per worker: position, call in progress, its clone
    holds,               \* per worker: owns an Arc<World>
    hist,                \* list mutations in the order they took effect
    rpc, ridx,           \* Engine::run: position, index of the scanned entity
    recreate_swapchain,  \* Engine::run's flag
    swapchain,           \* self.swapchain: how many times it was replaced
    worldLock,           \* holder of Engine.world's Mutex, or NoThread
    engineHolds,         \* the Engine owns an Arc<World>
    ehPc, newArgs, eh, callbacks, newRet,   \* EventHandler::new
    hpc, hguard, delivered         \* EventHandler::handle, per delivering thread

worldVars == <<entities, entitiesLock, poisoned, strong, nextUid,
               defaults, pc, op, snap, holds, hist>>
engineVars == <<rpc, ridx, recreate_swapchain, swapchain, worldLock,
                engineHolds>>
ehVars == <<ehPc, newArgs, eh, callbacks, newRet, hpc, hguard, delivered>>
vars == <<worldVars, engineVars, ehVars>>

\* ------------------------------------------------------------ wecs: Entity
NoEntity == [uid |-> 0, id |-> "", components |-> {}, world |-> "none"]
NoOp == [kind |-> "none", id |-> "", ent |-> NoEntity]

\* Entity::new(id, world, components): the entity keeps a back-reference to
\* its World; the kind of that reference is the entity's, not the caller's.
Entity_new_strong(uid, id, components) ==
    [uid |-> uid, id |-> id, components |-> components, world |-> "strong"]

Entity_new(uid, id, components) ==
    [uid |-> uid, id |-> id, components |-> components, world |-> "weak"]

\* Strong references to the World that entity e owns.
StrongHeldBy(e) == IF e.world = "strong" THEN 1 ELSE 0

\* ------------------------------------------------------------- wecs: World
\* Vec::push
PushFront(list, e) == <<e>> \o list

Push(list, e) == Append(list, e)

\* What create_default does to the list: nothing (no push).
CreateDefaultPushes(list, e) == Append(list, e)

CreateDefaultList(list, e) == list

\* Vec::remove(i), i the 1-based position; the caller checks i <= Len(list).
RemoveAt(list, i) == SubSeq(list, 1, i - 1) \o SubSeq(list, i + 1, Len(list))

\* The filter closure of remove_by_id: |(_, e)| *e.id == *id
MatchesAll(e, id) == TRUE

Matches(e, id) == e.id = id

\* remove_by_id's for_each over the clone `cloned`, from its k-th element on:
\* every matching element's index in the CLONE is removed from the live list
\* `cur`; Vec::remove panics when that index is not below the live length.
RECURSIVE RemoveLoop(_, _, _, _)
RemoveLoop(cur, cloned, id, k) ==
    IF k > Len(cloned) THEN [list |-> cur, panic |-> FALSE]
    ELSE IF Matches(cloned[k], id)
         THEN IF k > Len(cur) THEN [list |-> cur, panic |-> TRUE]
              ELSE RemoveLoop(RemoveAt(cur, k), cloned, id, k + 1)
         ELSE RemoveLoop(cur, cloned, id, k + 1)

\* Mutex::lock: granted when nobody holds it.
LockAlwaysFree(holder) == TRUE

LockFree(holder) == holder = NoThread

InFlight == {t \in Workers : pc[t] \in {"cr_lock", "cr_push", "rm_body"}}

CanCall(t) == pc[t] = "idle" /\ holds[t]
CanMutate(t) == CanCall(t) /\ Len(hist) + Cardinality(InFlight) < MaxOps

\* World::create, line 24: Entity::new(id, Mutex::new(self.clone()), components).
\* The receiver `self: Arc<Self>` is a handle of its own (the caller's clone);
\* self.clone() is handed to the entity.
CreateCall(t, id, components) ==
    /\ CanMutate(t)
    /\ nextUid <= MaxEntities
    /\ LET e == Entity_new(nextUid, id, components) IN
        /\ op' = [op EXCEPT ![t] = [kind |-> "create", id |-> id, ent |-> e]]
        /\ strong' = strong + 1 + StrongHeldBy(e)
    /\ nextUid' = nextUid + 1
    /\ pc' = [pc EXCEPT ![t] = "cr_lock"]
    /\ UNCHANGED <<entities, entitiesLock, poisoned, defaults, snap, holds, hist>>
    /\ UNCHANGED <<engineVars, ehVars>>

\* World::create, line 25: self.entities.lock().unwrap()
CreateLock(t) ==
    /\ pc[t] = "cr_lock"
    /\ LockFree(entitiesLock)
    /\ IF poisoned
       THEN \* unwrap panics: the thread unwinds and drops its handles; the
            \* new entity dies with it
            /\ pc' = [pc EXCEPT ![t] = "panicked"]
            /\ holds' = [holds EXCEPT ![t] = FALSE]
            /\ strong' = strong - 2 - StrongHeldBy(op[t].ent)
            /\ op' = [op EXCEPT ![t] = NoOp]
            /\ UNCHANGED entitiesLock
       ELSE /\ pc' = [pc EXCEPT ![t] = "cr_push"]
            /\ entitiesLock' = t
            /\ UNCHANGED <<holds, strong, op>>
    /\ UNCHANGED <<entities, poisoned, nextUid, defaults, snap, hist>>
    /\ UNCHANGED <<engineVars, ehVars>>

\* World::create, lines 27-30: push, return the entity; the guard and the
\* receiver are dropped at the end of the function.
CreatePush(t) ==
    /\ pc[t] = "cr_push"
    /\ entities' = Push(entities, op[t].ent)
    /\ hist' = Append(hist, op[t])
    /\ entitiesLock' = IF entitiesLock = t THEN NoThread ELSE entitiesLock
    /\ strong' = strong - 1
    /\ pc' = [pc EXCEPT ![t] = "idle"]
    /\ op' = [op EXCEPT ![t] = NoOp]
    /\ UNCHANGED <<poisoned, nextUid, defaults, snap, holds>>
    /\ UNCHANGED <<engineVars, ehVars>>

\* World::create_default, lines 32-36: Entity::new with an empty map; no lock,
\* no push.
CreateDefault(t, id) ==
    /\ CanCall(t)
    /\ nextUid <= MaxEntities
    /\ Cardinality(defaults) < MaxDefaults
    /\ LET e == Entity_new(nextUid, id, {}) IN
        /\ defaults' = defaults \cup {[arg |-> id, ent |-> e]}
        /\ entities' = CreateDefaultList(entities, e)
        /\ strong' = strong + StrongHeldBy(e)
    /\ nextUid' = nextUid + 1
    /\ UNCHANGED <<entitiesLock, poisoned, pc, op, snap, holds, hist>>
    /\ UNCHANGED <<engineVars, ehVars>>

\* World::remove_by_id, lines 46-49: lock, then clone the list.
RemoveLockClone(t, kind, id) ==
    /\ CanMutate(t)
    /\ LockFree(entitiesLock)
    /\ IF poisoned
       THEN /\ pc' = [pc EXCEPT ![t] = "panicked"]
            /\ holds' = [holds EXCEPT ![t] = FALSE]
            /\ strong' = strong - 1
            /\ UNCHANGED <<entitiesLock, op, snap>>
       ELSE /\ pc' = [pc EXCEPT ![t] = "rm_body"]
            /\ op' = [op EXCEPT ![t] = [kind |-> kind, id |-> id, ent |-> NoEntity]]
            /\ entitiesLock' = t
            /\ snap' = [snap EXCEPT ![t] = entities]
            /\ UNCHANGED <<holds, strong>>
    /\ UNCHANGED <<entities, poisoned, nextUid, defaults, hist>>
    /\ UNCHANGED <<engineVars, ehVars>>

RemoveByIdCall(t, id) == RemoveLockClone(t, "remove_by_id", id)

\* World::remove, lines 38-43: remove_by_id(entity.id.clone())
RemoveCall(t, e) == RemoveLockClone(t, "remove", e.id)

\* World::remove_by_id, lines 50-56: the for_each; a panic in Vec::remove
\* unwinds through the guard and poisons the Mutex.
RemoveBody(t) ==
    /\ pc[t] = "rm_body"
    /\ LET r == RemoveLoop(entities, snap[t], op[t].id, 1) IN
        /\ entities' = r.list
        /\ IF r.panic
           THEN /\ pc' = [pc EXCEPT ![t] = "panicked"]
                /\ poisoned' = TRUE
                /\ holds' = [holds EXCEPT ![t] = FALSE]
                /\ strong' = strong - 1
           ELSE /\ pc' = [pc EXCEPT ![t] = "idle"]
                /\ UNCHANGED <<poisoned, holds, strong>>
    /\ hist' = Append(hist, op[t])
    /\ entitiesLock' = IF entitiesLock = t THEN NoThread ELSE entitiesLock
    /\ op' = [op EXCEPT ![t] = NoOp]
    /\ snap' = [snap EXCEPT ![t] = <<>>]
    /\ UNCHANGED <<nextUid, defaults>>
    /\ UNCHANGED <<engineVars, ehVars>>

\* A worker lets go of its Arc<World>.
DropHandle(t) ==
    /\ CanCall(t)
    /\ holds' = [holds EXCEPT ![t] = FALSE]
    /\ strong' = strong - 1
    /\ UNCHANGED <<entities, entitiesLock, poisoned, nextUid,
                   defaults, pc, op, snap, hist>>
    /\ UNCHANGED <<engineVars, ehVars>>

\* ---------------------------------------------------- engine: Engine::run
\* The entity at position k carries a Mesh under "mesh" (get_type::<Mesh>).
HasMesh(list, k) == "mesh" \in list[k].components

\* The guards of line 201 are temporaries of the for loop's iterator
\* expression: they are released when the loop is left.
ReleaseScan ==
    /\ entitiesLock' = IF entitiesLock = Render THEN NoThread ELSE entitiesLock
    /\ worldLock' = NoThread
    /\ ridx' = 0

\* lines 159-162: CloseRequested => ControlFlow::Exit; the loop ends and the
\* Engine the closure owns goes with it.
CloseRequested ==
    /\ rpc = "wait"
    /\ rpc' = "exited"
    /\ engineHolds' = FALSE
    /\ strong' = strong - 1
    /\ UNCHANGED <<ridx, recreate_swapchain, swapchain, worldLock>>
    /\ UNCHANGED <<entities, entitiesLock, poisoned, nextUid, defaults, pc, op,
                   snap, holds, hist>>
    /\ UNCHANGED ehVars

\* lines 164-169: Resized
Resized ==
    /\ rpc = "wait"
    /\ recreate_swapchain' = TRUE
    /\ UNCHANGED <<rpc, ridx, swapchain, worldLock, engineHolds>>
    /\ UNCHANGED <<worldVars, ehVars>>

\* RedrawEventsCleared with line 180's `return` lost.
RedrawEventsClearedNoReturn(built) ==
    /\ rpc = "wait"
    /\ IF recreate_swapchain
       THEN CASE built = "ok" ->
                    /\ swapchain < MaxRecreations
                    /\ swapchain' = swapchain + 1
                    /\ recreate_swapchain' = FALSE
                    /\ rpc' = "lock"
                    /\ UNCHANGED <<engineHolds, strong>>
              [] built = "unsupported_dimensions" ->
                    \* falls through to the scan instead of returning
                    /\ rpc' = "lock"
                    /\ UNCHANGED <<recreate_swapchain, swapchain,
                                   engineHolds, strong>>
              [] OTHER ->
                    /\ rpc' = "panicked"
                    /\ engineHolds' = FALSE
                    /\ strong' = strong - 1
                    /\ UNCHANGED <<recreate_swapchain, swapchain>>
       ELSE /\ built = "ok"
            /\ rpc' = "lock"
            /\ UNCHANGED <<recreate_swapchain, swapchain, engineHolds, strong>>
    /\ UNCHANGED <<ridx, worldLock>>
    /\ UNCHANGED <<entities, entitiesLock, poisoned, nextUid, defaults, pc, op,
                   snap, holds, hist>>
    /\ UNCHANGED ehVars

\* lines 171-199: RedrawEventsCleared up to the entity scan; `built` is what
\* swapchain.recreate()...build() answers when the flag asks for it.
RedrawEventsCleared(built) ==
    /\ rpc = "wait"
    /\ IF recreate_swapchain
       THEN CASE built = "ok" ->
                    \* lines 184-198: the new swapchain, images, pipeline
                    \* and framebuffers replace the old; the flag is cleared
                    /\ swapchain < MaxRecreations
                    /\ swapchain' = swapchain + 1
                    /\ recreate_swapchain' = FALSE
                    /\ rpc' = "lock"
                    /\ UNCHANGED <<engineHolds, strong>>
              [] built = "unsupported_dimensions" ->
                    \* line 180: return
                    UNCHANGED <<recreate_swapchain, swapchain, rpc,
                                engineHolds, strong>>
              [] OTHER ->
                    /\ rpc' = "panicked"
                    /\ engineHolds' = FALSE
                    /\ strong' = strong - 1
                    /\ UNCHANGED <<recreate_swapchain, swapchain>>
       ELSE /\ built = "ok"
            /\ rpc' = "lock"
            /\ UNCHANGED <<recreate_swapchain, swapchain, engineHolds, strong>>
    /\ UNCHANGED <<ridx, worldLock>>
    /\ UNCHANGED <<entities, entitiesLock, poisoned, nextUid, defaults, pc, op,
                   snap, holds, hist>>
    /\ UNCHANGED ehVars

\* line 201: self.world.lock().unwrap().entities().lock().unwrap()
ScanLock ==
    /\ rpc = "lock"
    /\ LockFree(entitiesLock)
    /\ IF poisoned
       THEN /\ rpc' = "panicked"
            /\ engineHolds' = FALSE
            /\ strong' = strong - 1
            /\ UNCHANGED <<ridx, worldLock, entitiesLock>>
       ELSE /\ rpc' = "scan"
            /\ ridx' = 1
            /\ worldLock' = Render
            /\ entitiesLock' = Render
            /\ UNCHANGED <<engineHolds, strong>>
    /\ UNCHANGED <<recreate_swapchain, swapchain>>
    /\ UNCHANGED <<entities, poisoned, nextUid, defaults, pc, op, snap, holds, hist>>
    /\ UNCHANGED ehVars

\* lines 201-241: the for loop's head and the per-entity setup, up to the
\* entity's mesh (if it has one).
ScanNext ==
    /\ rpc = "scan"
    /\ IF ridx > Len(entities)
       THEN /\ rpc' = "wait"
            /\ ReleaseScan
       ELSE /\ IF HasMesh(entities, ridx)
               THEN rpc' = "acquire" /\ ridx' = ridx
               ELSE rpc' = "scan" /\ ridx' = ridx + 1
            /\ UNCHANGED <<entitiesLock, worldLock>>
    /\ UNCHANGED <<recreate_swapchain, swapchain, engineHolds>>
    /\ UNCHANGED <<entities, poisoned, strong, nextUid, defaults, pc, op, snap,
                   holds, hist>>
    /\ UNCHANGED ehVars

\* lines 242-254: swapchain::acquire_next_image
AcquireNextImage(got) ==
    /\ rpc = "acquire"
    /\ CASE got = "ok" ->
                /\ rpc' = "flush"
                /\ UNCHANGED <<recreate_swapchain, ridx, worldLock, entitiesLock,
                               poisoned, engineHolds, strong>>
          [] got = "suboptimal" ->
                /\ rpc' = "flush"
                /\ recreate_swapchain' = TRUE
                /\ UNCHANGED <<ridx, worldLock, entitiesLock, poisoned,
                               engineHolds, strong>>
          [] got = "out_of_date" ->
                /\ recreate_swapchain' = TRUE
                /\ rpc' = "wait"
                /\ ReleaseScan
                /\ UNCHANGED <<poisoned, engineHolds, strong>>
          [] OTHER ->
                \* panic!: the unwinding drops both guards, poisoning them
                /\ rpc' = "panicked"
                /\ ReleaseScan
                /\ poisoned' = TRUE
                /\ engineHolds' = FALSE
                /\ strong' = strong - 1
                /\ UNCHANGED recreate_swapchain
    /\ UNCHANGED swapchain
    /\ UNCHANGED <<entities, nextUid, defaults, pc, op, snap, holds, hist>>
    /\ UNCHANGED ehVars

\* lines 256-337: record the command buffer, then_execute,
\* then_swapchain_present, then_signal_fence_and_flush
Flush(got) ==
    /\ rpc = "flush"
    /\ recreate_swapchain' = (recreate_swapchain \/ got = "out_of_date")
    /\ rpc' = "scan"
    /\ ridx' = ridx + 1
    /\ UNCHANGED <<swapchain, worldLock, engineHolds>>
    /\ UNCHANGED <<worldVars, ehVars>>

RecreateResults == {"ok", "unsupported_dimensions", "error"}
AcquireResults == {"ok", "suboptimal", "out_of_date", "error"}
FlushResults == {"ok", "out_of_date", "error"}

\* --------------------------------------- components: EventHandler
EVENT_HANDLER_ID == "event handler"
NoComponent == [id |-> "", tid |-> "", entity |-> "None", handler |-> "none"]
ComponentRef == "c1"
NoArgs == [id |-> "", handler |-> "none"]

\* lines 22-27: the struct EventHandler::new builds
EventHandlerStruct(id, handler) ==
    [id |-> id, tid |-> EVENT_HANDLER_ID, entity |-> "None", handler |-> handler]

\* line 29: the argument of set_event_handler
SetEventHandlerNone(ref) == [some |-> FALSE, ref |-> "null"]

SetEventHandlerArg(ref) == [some |-> TRUE, ref |-> ref]

\* lines 22-27
NewConstruct(id, handler) ==
    /\ ehPc = "start"
    /\ newArgs' = [id |-> id, handler |-> handler]
    /\ eh' = EventHandlerStruct(id, handler)
    /\ ehPc' = "built"
    /\ UNCHANGED <<callbacks, newRet, hpc, hguard, delivered>>
    /\ UNCHANGED <<worldVars, engineVars>>

\* line 29: handler.set_event_handler(Some(event_handler.clone())); the
\* callback sees the component as it is now.
NewCallback ==
    /\ ehPc = "built"
    /\ callbacks' = Append(callbacks, [receiver |-> newArgs.handler,
                                       arg |-> SetEventHandlerArg(ComponentRef),
                                       seen |-> eh])
    /\ ehPc' = "called"
    /\ UNCHANGED <<newArgs, eh, newRet, hpc, hguard, delivered>>
    /\ UNCHANGED <<worldVars, engineVars>>

\* line 31
NewReturn ==
    /\ ehPc = "called"
    /\ newRet' = ComponentRef
    /\ ehPc' = "returned"
    /\ UNCHANGED <<newArgs, eh, callbacks, hpc, hguard, delivered>>
    /\ UNCHANGED <<worldVars, engineVars>>

\* line 35: self.handler.read()
HandleLockMode == "read"

\* RwLock: a reader waits for a writer, a writer for everybody.
Grantable(mode, h) ==
    IF mode = "read" THEN \A o \in Deliverers : hguard[o] # "write"
    ELSE \A o \in Deliverers \ {h} : hguard[o] = "none"

\* The handler's handle(event) is entered once with event ev.
DeliverFirstOnly(d, ev) ==
    IF \E o \in DOMAIN d : d[o] > 0 THEN d ELSE [d EXCEPT ![ev] = @ + 1]

Deliver(d, ev) == [d EXCEPT ![ev] = @ + 1]

\* line 35: .read().unwrap(); thread h delivers event h
HandleRead(h) ==
    /\ ehPc = "returned"
    /\ hpc[h] = "idle"
    /\ Grantable(HandleLockMode, h)
    /\ hguard' = [hguard EXCEPT ![h] = HandleLockMode]
    /\ hpc' = [hpc EXCEPT ![h] = "reading"]
    /\ UNCHANGED <<ehPc, newArgs, eh, callbacks, newRet, delivered>>
    /\ UNCHANGED <<worldVars, engineVars>>

\* line 35: .handle(event); the guard is a temporary of the statement
HandleInvoke(h) ==
    /\ hpc[h] = "reading"
    /\ eh.handler # "none"
    /\ delivered' = Deliver(delivered, h)
    /\ hguard' = [hguard EXCEPT ![h] = "none"]
    /\ hpc' = [hpc EXCEPT ![h] = "done"]
    /\ UNCHANGED <<ehPc, newArgs, eh, callbacks, newRet>>
    /\ UNCHANGED <<worldVars, engineVars>>

\* ------------------------------------------------------------------- Init
InitWorld ==
    /\ entities = <<>>
    /\ entitiesLock = NoThread
    /\ poisoned = FALSE
    /\ strong = Cardinality(Workers) + 1
    /\ nextUid = 1
    /\ defaults = {}
    /\ pc = [t \in Workers |-> "idle"]
    /\ op = [t \in Workers |-> NoOp]
    /\ snap = [t \in Workers |-> <<>>]
    /\ holds = [t \in Workers |-> TRUE]
    /\ hist = <<>>

InitEngine ==
    /\ rpc = "wait"
    /\ ridx = 0
    /\ recreate_swapchain = FALSE
    /\ swapchain = 0
    /\ worldLock = NoThread
    /\ engineHolds = TRUE

InitEH ==
    /\ ehPc = "start"
    /\ newArgs = NoArgs
    /\ eh = NoComponent
    /\ callbacks = <<>>
    /\ newRet = "null"
    /\ hpc = [h \in Deliverers |-> "idle"]
    /\ hguard = [h \in Deliverers |-> "none"]
    /\ delivered = [h \in Deliverers |-> 0]

Init == InitWorld /\ InitEngine /\ InitEH

\* Entities a caller can still hold an Arc to.
Held == {entities[k] : k \in 1..Len(entities)} \cup {d.ent : d \in defaults}

\* Worker threads calling one World.
Next ==
    \E t \in Workers :
        \/ \E id \in Ids : CreateCall(t, id, {})
        \/ CreateLock(t)
        \/ CreatePush(t)
        \/ \E id \in Ids : CreateDefault(t, id)
        \/ \E id \in Ids : RemoveByIdCall(t, id)
        \/ \E e \in Held : RemoveCall(t, e)
        \/ RemoveBody(t)

Spec == Init /\ [][Next]_vars

\* Engine::run rendering the World one worker creates entities in and removes
\* them from, while the holders of the World let go of it.
RunWorker == "w1"
RunIds == {"a"}

NextRun ==
    \/ \E id \in RunIds, c \in ComponentMaps : CreateCall(RunWorker, id, c)
    \/ CreateLock(RunWorker)
    \/ CreatePush(RunWorker)
    \/ \E id \in RunIds : CreateDefault(RunWorker, id)
    \/ \E id \in RunIds : RemoveByIdCall(RunWorker, id)
    \/ RemoveBody(RunWorker)
    \/ \E t \in Workers : DropHandle(t)
    \/ CloseRequested
    \/ Resized
    \/ \E built \in RecreateResults : RedrawEventsCleared(built)
    \/ ScanLock
    \/ ScanNext
    \/ \E got \in AcquireResults : AcquireNextImage(got)
    \/ \E got \in FlushResults : Flush(got)

SpecRun == Init /\ [][NextRun]_vars

\* EventHandler::new, then one EventHandler::handle per delivering thread.
NextEH ==
    \/ \E id \in Ids, handler \in Handlers : NewConstruct(id, handler)
    \/ NewCallback
    \/ NewReturn
    \/ \E h \in Deliverers : HandleRead(h) \/ HandleInvoke(h)

SpecEH == Init /\ [][NextEH]_vars

\* ------------------------------------------------------------- properties
Listed(list) == {list[k] : k \in 1..Len(list)}
WithoutId(list, id) == SelectSeq(list, LAMBDA e : e.id # id)
RemoveReturns(t) == pc[t] = "rm_body" /\ pc'[t] = "idle"
RemoveEnds(t) == pc[t] = "rm_body" /\ pc'[t] # "rm_body"
AllIdle == \A t \in Workers : pc[t] = "idle"

\* The list the calls recorded in h[1..k] produce when applied one after the
\* other, each as the World's contract states it.
RECURSIVE Replay(_, _)
Replay(h, k) ==
    IF k = 0 THEN <<>>
    ELSE IF h[k].kind = "create" THEN Append(Replay(h, k - 1), h[k].ent)
         ELSE WithoutId(Replay(h, k - 1), h[k].id)

DistinctIds(list) ==
    \A i, j \in 1..Len(list) : i # j => list[i].id # list[j].id

\* Each id occurred at most once in the list, all along.
UniqueHist == \A k \in 0..Len(hist) : DistinctIds(Replay(hist, k))

\* C1: every remove_by_id(id) call completes without panicking and leaves the
\* list equal to the previous list without the entities whose id equals id,
\* the others kept in their order (two entities sharing the id: the list
\* shrinks by 2).
C1_RemoveByIdRemovesExactlyTheMatches ==
    [][\A t \in Workers :
          RemoveEnds(t) =>
              /\ pc'[t] = "idle"
              /\ entities' = WithoutId(entities, op[t].id)]_vars

\* C2: remove_by_id is idempotent: right after a remove_by_id(id) call has
\* returned, a second remove_by_id(id) call returns and leaves the list as the
\* first call left it.
C2_RemoveByIdIdempotent ==
    [][\A t \in Workers :
          RemoveReturns(t) =>
              LET again == RemoveLoop(entities', entities', op[t].id, 1) IN
                  ~again.panic /\ again.list = entities']_vars

\* C3: create appends exactly one new entity, carrying the given id, to the
\* end of the list before it returns, and no step other than a removal takes
\* a listed entity out of the list or changes the order of the listed ones.
C3_CreateAppendsBeforeReturn ==
    [][\A t \in Workers :
          /\ (pc[t] = "cr_push" /\ pc'[t] = "idle") =>
                 /\ entities' = Append(entities, op[t].ent)
                 /\ op[t].ent.id = op[t].id
                 /\ op[t].ent \notin Listed(entities)
          /\ (\A u \in Workers : ~RemoveEnds(u)) =>
                 /\ Len(entities') >= Len(entities)
                 /\ SubSeq(entities', 1, Len(entities)) = entities]_vars

\* C3's case: a create has just returned into a list that held an entity.
C3_Witness ==
    /\ AllIdle
    /\ Len(hist) >= 2
    /\ hist[Len(hist)].kind = "create"
    /\ Len(entities) >= 2
    /\ entities[Len(entities)] = hist[Len(hist)].ent

\* C4: create_default(id) returns an entity with the given id and an empty
\* component map, leaves the list unchanged, and the returned entity is never
\* in the list.
C4_CreateDefaultUntracked ==
    [][/\ defaults' # defaults => entities' = entities
       /\ \A d \in defaults' :
              /\ d.ent.id = d.arg
              /\ d.ent.components = {}
              /\ d.ent \notin Listed(entities')]_vars

\* C4's case: create_default has returned an entity whose id a listed entity
\* carries too.
C4_Witness ==
    \E d \in defaults : \E e \in Listed(entities) : e.id = d.arg

\* Arc<World> handles that are not an entity's: the workers', the Engine's,
\* and the receivers of the create calls in progress.
ExternalHandles ==
    Cardinality({t \in Workers : holds[t]})
    + Cardinality({t \in Workers : pc[t] \in {"cr_lock", "cr_push"}})
    + (IF engineHolds THEN 1 ELSE 0)

C6_NoLockAcrossGpuCall ==
    rpc \in {"acquire", "flush"} =>
        entitiesLock # Render /\ worldLock # Render

\* C7: EventHandler::new calls handler.set_event_handler exactly once, with
\* Some(c), c the component new returns, and at that moment c's handler slot
\* holds the supplied handler, its id is the given id and its entity is None.
C7_TwoPhaseConstruction ==
    /\ Len(callbacks) = (IF ehPc \in {"called", "returned"} THEN 1 ELSE 0)
    /\ \A k \in 1..Len(callbacks) :
           /\ callbacks[k].receiver = newArgs.handler
           /\ callbacks[k].arg = [some |-> TRUE, ref |-> ComponentRef]
           /\ callbacks[k].seen.handler = newArgs.handler
           /\ callbacks[k].seen.id = newArgs.id
           /\ callbacks[k].seen.entity = "None"
    /\ ehPc = "returned" => newRet = callbacks[1].arg.ref

\* C7's case: new has returned.
C7_Witness == ehPc = "returned" /\ Len(callbacks) = 1 /\ newRet = ComponentRef

\* C8: every delivering thread's event reaches the handler exactly once, no
\* event is delivered before its thread's call or twice, and every delivery
\* holds the handler slot's lock in read mode only.
C8_EachEventDeliveredOnce ==
    /\ \A h \in Deliverers : hguard[h] \in {"none", "read"}
    /\ \A h \in Deliverers : delivered[h] = (IF hpc[h] = "done" THEN 1 ELSE 0)

\* C8's case: all the threads have delivered.
C8_Witness ==
    /\ \A h \in Deliverers : hpc[h] = "done"
    /\ \A h \in Deliverers : delivered[h] = 1

\* C9: a remove_by_id(id) or remove(entity with that id) call that finds no
\* listed entity with that id returns normally and leaves the list as it was.
C9_RemoveAbsentIsNoOp ==
    [][\A t \in Workers :
          (RemoveEnds(t) /\ \A e \in Listed(entities) : e.id # op[t].id) =>
              /\ pc'[t] = "idle"
              /\ entities' = entities
              /\ poisoned' = poisoned]_vars

\* The k-th recorded call removed an id that no call before it had created.
RemovedAbsent(k, kind) ==
    /\ hist[k].kind = kind
    /\ \A j \in 1..(k - 1) : ~(hist[j].kind = "create" /\ hist[j].id = hist[k].id)

\* C9's case: both remove_by_id and remove have returned from removing an
\* absent id from a list that is not empty.
C9_Witness ==
    /\ AllIdle
    /\ ~poisoned
    /\ entities # <<>>
    /\ \E k \in 2..Len(hist) : RemovedAbsent(k, "remove_by_id")
    /\ \E k \in 2..Len(hist) : RemovedAbsent(k, "remove")

\* C10: at most one call is inside its critical section, the clone a
\* remove_by_id works from is the live list, and as long as each id occurred
\* at most once in the list, no call panicked and the list is the result of
\* applying the calls one after the other in the order they took the lock.
C10_MutationsSerialized ==
    /\ Cardinality({t \in Workers : pc[t] \in {"cr_push", "rm_body"}}) <= 1
    /\ \A t \in Workers : pc[t] = "rm_body" => snap[t] = entities
    /\ UniqueHist =>
           /\ entities = Replay(hist, Len(hist))
           /\ ~poisoned
           /\ \A t \in Workers : pc[t] # "panicked"

\* C10's case: creates and a removal that removed something, from both
\* workers' calls, all returned.
C10_Witness ==
    /\ AllIdle
    /\ UniqueHist
    /\ Len(hist) >= 4
    /\ entities # <<>>
    /\ \E k \in 2..Len(hist) :
           /\ hist[k].kind = "remove_by_id"
           /\ ~RemovedAbsent(k, "remove_by_id")

Scanning == {"lock", "scan", "acquire", "flush"}

\* C11: the flag is set only by Resized, by an image acquisition or by a
\* flush; it is cleared only by the redraw's successful swapchain recreation;
\* while it is set, a step that recreates nothing starts no scan and leaves it
\* set (so a redraw that fails with UnsupportedDimensions ends with the flag
\* set); the flag is false whenever the entity scan is about to start or
\* starts; and an image is acquired only from inside a scan.
C11_RecreateBeforeDraw ==
    [][/\ (~recreate_swapchain /\ recreate_swapchain') =>
              rpc \in {"wait", "acquire", "flush"}
       /\ (recreate_swapchain /\ ~recreate_swapchain') =>
              /\ rpc = "wait" /\ rpc' = "lock"
              /\ swapchain' = swapchain + 1
       /\ (rpc = "wait" /\ recreate_swapchain /\ swapchain' = swapchain) =>
              /\ rpc' \notin Scanning
              /\ recreate_swapchain'
       /\ rpc' = "lock" => ~recreate_swapchain'
       /\ (rpc = "lock" /\ rpc' = "scan") => (~recreate_swapchain' /\ ridx' = 1)
       /\ (rpc' = "acquire" /\ rpc # "acquire") => rpc = "scan"]_vars

\* C11's case: the flag was set, a redraw recreated the swapchain, and a mesh
\* of the scan that followed has its image acquired with the flag false.
C11_Witness ==
    /\ swapchain >= 1
    /\ rpc = "flush"
    /\ ~recreate_swapchain
====
